---- MODULE Spec2Model ----
(***************************************************************************)
(* Model of the EVAA MCP server (server.py) and of its session logging     *)
(* (logging_config.py).                                                    *)
(*                                                                         *)
(* Python strings are sequences of one-character strings, so that the      *)
(* regular expressions, the substring tests and the f-strings of the code  *)
(* are computed character by character.  Python's None is the sequence     *)
(* None, whose only element is not a character.                            *)
(*                                                                         *)
(* Four specifications share the module:                                   *)
(*   Spec         the four tool handlers of server.py, one invocation      *)
(*                after another, over the process-wide logger registry;    *)
(*   SpecLogger   threads calling get_session_logger concurrently, the     *)
(*                calendar date moving on, records written to log files;   *)
(*   SpecUrl      validate_url applied to a family of URLs;                *)
(*   SpecExtract  extract_context_from_message applied to a family of      *)
(*                messages.                                                *)
(***************************************************************************)
EXTENDS Integers, Sequences, FiniteSets, TLC

VARIABLES
    session_loggers,   \* logging_config._session_loggers: logger_key -> logger name
    logger_objects,    \* logging.getLogger's objects: logger name -> file handler (or NoHandler)
    log_files,         \* the log files on disk: log path -> the records appended to it
    today,             \* what datetime.now() returns, as a day number
    lock_owner,        \* logging_config._session_lock: the thread holding it, or NoThread
    pc,                \* SpecLogger: each thread's position in get_session_logger
    frame,             \* SpecLogger: each thread's arguments and locals
    calls_made,        \* SpecLogger: how many calls of get_session_logger were made
    create_runs,       \* history: logger_key -> how often _create_session_logger was entered
    opened_handlers,   \* history: every file handler _create_session_logger ever opened
    registered,        \* history: every <<logger_key, logger name>> ever stored in the registry
    call,              \* Spec: the handler invocation that ran last, with its arguments
    result,            \* Spec: what that invocation did and returned
    url,               \* SpecUrl: the argument of validate_url
    verdict,           \* SpecUrl: the dict validate_url returned
    message,           \* SpecExtract: the argument of extract_context_from_message
    context            \* SpecExtract: the dict it returned

vars == <<session_loggers, logger_objects, log_files, today, lock_owner, pc, frame,
          calls_made, create_runs, opened_handlers, registered, call, result, url, verdict,
          message, context>>

registry_vars == <<session_loggers, logger_objects, log_files, today, lock_owner, pc, frame,
                   calls_made, create_runs, opened_handlers, registered>>
handler_vars == <<call, result>>
url_vars == <<url, verdict>>
extract_vars == <<message, context>>

----------------------------------------------------------------------------
(* String literals of the source, character by character. *)

None == <<"None">>
TAG_SESSION_ID == <<"[", "S", "E", "S", "S", "I", "O", "N", "_", "I", "D", ":">>
TAG_PATH == <<"[", "P", "A", "T", "H", ":">>
TAG_BOT_ID == <<"[", "B", "O", "T", "_", "I", "D", ":">>
FALLBACK_SESSION_ID == <<"f", "a", "l", "l", "b", "a", "c", "k", "-", "s", "e", "s", "s", "i", "o", "n", "-", "i", "d">>
NO_SESSION == <<"N", "O", "_", "S", "E", "S", "S", "I", "O", "N">>
ERROR_SESSION == <<"E", "R", "R", "O", "R">>
UNKNOWN_SESSION == <<"u", "n", "k", "n", "o", "w", "n">>
PROJECT_MCP == <<"M", "C", "P", " ", "S", "e", "r", "v", "e", "r">>
BOT_FP01 == <<"f", "p", "0", "1">>
APP == <<"a", "p", "p">>
APP_V2 == <<"a", "p", "p", ".", "v", "2">>
S1 == <<"s", "1">>
V2_S1 == <<"v", "2", ".", "s", "1">>
DATE_PREFIX == <<"2", "0", "2", "6", "-", "1", "1", "-">>
DIGITS == <<"0", "1", "2", "3", "4", "5", "6", "7", "8", "9">>
BASE_LOG_DIR == <<"C", ":", "\\", "l", "o", "g", "s", "\\", "E", "v", "a", "a", " ", "a", "g", "e", "n", "t", "i", "c", " ", "l", "o", "g", "s">>
SESSION_INFIX == <<"_", "S", "E", "S", "S", "I", "O", "N", "-">>
LOG_SUFFIX == <<".", "l", "o", "g">>
S2 == <<"s", "2">>
BOT_QA == <<"Q", "A", "p", "i", "x", "W">>
STR_NONE == <<"N", "o", "n", "e">>
FORM_URL_1 == <<"h", "t", "t", "p", "s", ":", "/", "/", "f", "o", "r", "m", "s", ".", "t", "e", "s", "t", "/", "b", "o", "o", "k">>
FORM_URL_2 == <<"h", "t", "t", "p", "s", ":", "/", "/", "f", "o", "r", "m", "s", ".", "t", "e", "s", "t", "/", "b", "o", "o", "k", "?", "p", "=", "f", "p">>
cancelAppointmentFormUrl == <<"h", "t", "t", "p", "s", ":", "/", "/", "f", "o", "r", "m", "s", ".", "t", "e", "s", "t", "/", "c", "a", "n", "c", "e", "l">>
rescheduleAppointmentFormUrl == <<"h", "t", "t", "p", "s", ":", "/", "/", "f", "o", "r", "m", "s", ".", "t", "e", "s", "t", "/", "r", "e", "s", "c", "h", "e", "d", "u", "l", "e">>
PARAM_SESSION_ID == <<"s", "e", "s", "s", "i", "o", "n", "_", "i", "d", "=">>
PARAM_TS == <<"&", "t", "s", "=">>
Q_PLAIN == <<"h", "o", "u", "r", "s", "?">>
Q_SESSION == <<"[", "S", "E", "S", "S", "I", "O", "N", "_", "I", "D", ":", " ", "s", "2", "]", " ", "h", "o", "u", "r", "s", "?">>
Q_BOT == <<"[", "B", "O", "T", "_", "I", "D", ":", " ", "f", "p", "0", "1", "]", " ", "h", "o", "u", "r", "s", "?">>
Q_PATH == <<"[", "P", "A", "T", "H", ":", " ", "e", "1", "/", "c", "l", "i", "n", "i", "c", "/", "f", "p", "0", "1", "]", " ", "h", "o", "u", "r", "s", "?">>
Q_ALL == <<"[", "S", "E", "S", "S", "I", "O", "N", "_", "I", "D", ":", " ", "s", "2", "]", " ", "[", "P", "A", "T", "H", ":", " ", "e", "1", "/", "c", "l", "i", "n", "i", "c", "/", "Q", "A", "p", "i", "x", "W", "]", " ", "[", "B", "O", "T", "_", "I", "D", ":", " ", "f", "p", "0", "1", "]", " ", "h", "o", "u", "r", "s", "?">>
PATH_QA == <<"e", "1", "/", "c", "l", "i", "n", "i", "c", "/", "Q", "A", "p", "i", "x", "W">>
NOW_MS == <<"1", "7", "6", "2", "2", "1", "4", "4", "0", "0", "0", "0", "0">>
DEFAULT_NAMESPACE == <<"h", "r", "4", "s">>

----------------------------------------------------------------------------
(* Python's str operations and the pieces of `re` the code uses. *)

\* bool(x) for a str or None: None and '' are false
Truthy(x) == x # None /\ x # <<>>

\* x or y
Or(x, y) == IF Truthy(x) THEN x ELSE y

\* the whitespace of \s and of str.strip() that the modelled alphabet holds
IsSpace(c) == c = " "

\* s[i:] starts with the literal lit (i counted from 1)
MatchAt(s, i, lit) ==
    /\ i >= 1
    /\ i + Len(lit) - 1 <= Len(s)
    /\ \A k \in 1..Len(lit) : s[i + k - 1] = lit[k]

\* lit in s
Contains(s, lit) == \E i \in 1..Len(s) : MatchAt(s, i, lit)

\* the least element of a non-empty set of integers
Least(S) == CHOOSE i \in S : \A j \in S : i <= j

\* the index of the first c at or after position from, 0 when there is none
IndexFrom(s, c, from) ==
    LET hits == {j \in from..Len(s) : s[j] = c}
    IN  IF hits = {} THEN 0 ELSE Least(hits)

\* the first index at or after from that holds no whitespace (Len(s)+1 when none)
SkipSpaces(s, from) ==
    LET stops == {j \in from..Len(s) : ~IsSpace(s[j])}
    IN  IF stops = {} THEN Len(s) + 1 ELSE Least(stops)

\* s.strip()
Strip(s) ==
    LET keep == {j \in 1..Len(s) : ~IsSpace(s[j])}
    IN  IF keep = {} THEN <<>>
        ELSE SubSeq(s, Least(keep), CHOOSE i \in keep : \A j \in keep : j <= i)

\* s.strip(c) for a one-character c
StripChar(s, c) ==
    LET keep == {j \in 1..Len(s) : s[j] # c}
    IN  IF keep = {} THEN <<>>
        ELSE SubSeq(s, Least(keep), CHOOSE i \in keep : \A j \in keep : j <= i)

\* s.split(c)[-1]: what follows the last c
LastSegment(s, c) ==
    LET seps == {j \in 1..Len(s) : s[j] = c}
    IN  IF seps = {} THEN s
        ELSE SubSeq(s, (CHOOSE i \in seps : \A j \in seps : j <= i) + 1, Len(s))

\* re.search(r'\[KEY:\s*([^\]]+)\]', s) with tag the literal "[KEY:": the start
\* of the leftmost match, 0 when there is none.  A match at i needs the literal
\* at i and at least one character between it and the first "]" after it.
TagSearch(s, tag) ==
    LET starts == {i \in 1..Len(s) :
                      /\ MatchAt(s, i, tag)
                      /\ IndexFrom(s, "]", i + Len(tag)) > i + Len(tag)}
    IN  IF starts = {} THEN 0 ELSE Least(starts)

\* match.group(1).strip() of that search; None when there is no match.  \s* is
\* greedy but leaves group 1 a character, so the strip of group 1 is the strip of
\* all that lies between the literal and the "]".
TagValue(s, tag) ==
    LET i == TagSearch(s, tag)
    IN  IF i = 0 THEN None
        ELSE Strip(SubSeq(s, i + Len(tag), IndexFrom(s, "]", i + Len(tag)) - 1))

\* re.sub(r'\[KEY:[^\]]*\]\s*', '', s) from position i on: one pass from left to
\* right, each match removed with the whitespace behind it, the scan resuming
\* after the match.
RECURSIVE SubTagFrom(_, _, _)
SubTagFrom(s, tag, i) ==
    IF i > Len(s) THEN <<>>
    ELSE LET close == IF MatchAt(s, i, tag) THEN IndexFrom(s, "]", i + Len(tag)) ELSE 0
         IN  IF close # 0 THEN SubTagFrom(s, tag, SkipSpaces(s, close + 1))
             ELSE <<s[i]>> \o SubTagFrom(s, tag, i + 1)

SubTag(s, tag) == SubTagFrom(s, tag, 1)

\* re.search(r'\[KEY:[^\]]*\]', s) is not None: s holds an occurrence of the tag pattern
HasTagPattern(s, tag) ==
    \E i \in 1..Len(s) : MatchAt(s, i, tag) /\ IndexFrom(s, "]", i + Len(tag)) # 0

----------------------------------------------------------------------------
(* server.py: the context extractor. *)

\* extract_context_from_message: the clean message, all three subs in the code's order
CleanMessage(msg) == Strip(SubTag(SubTag(SubTag(msg, TAG_SESSION_ID), TAG_PATH), TAG_BOT_ID))

extract_context_from_message(msg) ==
    [session_id    |-> TagValue(msg, TAG_SESSION_ID),
     path          |-> TagValue(msg, TAG_PATH),
     bot_id        |-> TagValue(msg, TAG_BOT_ID),
     clean_message |-> CleanMessage(msg)]

get_bot_id_from_path(path) ==
    IF ~Truthy(path) THEN <<>> ELSE LastSegment(StripChar(path, "/"), "/")

----------------------------------------------------------------------------
(* logging_config.py: the session logger registry. *)

\* the bounds of the registry model
MaxDay == 2
MaxCalls == 3

Threads == {"t1", "t2"}
NoThread == "none"
NoLogger == <<"NoLogger">>
NoHandler == [id |-> 0, path |-> <<>>, key |-> <<>>, name |-> <<>>, opened_on |-> 0]

\* the arguments the threads of SpecLogger pass to get_session_logger
\* (two of them name the same logger, "app.v2.s1", under different keys)
CallArgs == {<<APP, V2_S1>>, <<APP_V2, S1>>, <<APP_V2, None>>}

EmptyMap == [k \in {} |-> {}]
Put(f, k, v) == [x \in DOMAIN f \cup {k} |-> IF x = k THEN v ELSE f[x]]
Get(f, k, default) == IF k \in DOMAIN f THEN f[k] ELSE default

\* lines 31-32: if not session_id: session_id = 'NO_SESSION'
SessionOrDefault(session_id) == IF Truthy(session_id) THEN session_id ELSE NO_SESSION

\* line 35: f"{project_name}_{session_id}"
logger_key(project_name, session_id) == project_name \o <<"_">> \o session_id

\* line 65: f"{project_name}.{session_id}"
logger_name(project_name, session_id) == project_name \o <<".">> \o session_id

\* line 60: datetime.now().strftime('%Y-%m-%d'), the days of one month
DateStr(day) == DATE_PREFIX \o <<DIGITS[(day \div 10) + 1], DIGITS[(day % 10) + 1]>>

\* lines 53-62: Path(base_log_dir) / project_name / f"{date_str}_SESSION-{session_id}.log"
log_path(project_name, day, session_id) ==
    BASE_LOG_DIR \o <<"/">> \o project_name \o <<"/">>
                 \o DateStr(day) \o SESSION_INFIX \o session_id \o LOG_SUFFIX

\* What a run of _create_session_logger can do, by what the file system lets it do:
\* mkdir (line 57) or the open of the FileHandler (line 82) may raise OSError.
CreateOutcomes == {"ok", "mkdir_raises", "open_raises"}

\* _create_session_logger (lines 48-106) on the logging module's objects: the
\* logger of that name is fetched or made (line 66), its handlers are cleared
\* (line 70), a file handler on today's path is opened and added (lines 82, 103).
create_session_logger(objects, opened, project_name, session_id, day, outcome) ==
    LET name    == logger_name(project_name, session_id)
        key     == logger_key(project_name, session_id)
        handler == [id        |-> Cardinality({h \in opened : h.key = key}) + 1,
                    path      |-> log_path(project_name, day, session_id),
                    key       |-> key,
                    name      |-> name,
                    opened_on |-> day]
    IN  CASE outcome = "mkdir_raises" ->
                [raised |-> TRUE, logger |-> NoLogger, objects |-> objects, opened |-> opened]
          [] outcome = "open_raises" ->
                [raised |-> TRUE, logger |-> NoLogger,
                 objects |-> Put(objects, name, NoHandler), opened |-> opened]
          [] OTHER ->
                [raised |-> FALSE, logger |-> name,
                 objects |-> Put(objects, name, handler), opened |-> opened \cup {handler}]

\* line 38: `with _session_lock` can be entered
LockAvailableAlways(owner) == TRUE
LockAvailable(owner) == owner = NoThread

\* line 39: logger_key in _session_loggers
KeyRegisteredNever(loggers, key) == FALSE
KeyRegistered(loggers, key) == key \in DOMAIN loggers

\* the file a record logged through a handler goes to: the one opened at line 82
EmitPathToday(handler, project_name, session_id, day) == log_path(project_name, day, session_id)
EmitPath(handler, project_name, session_id, day) == handler.path

IdleFrame == [project_name |-> <<>>, session_id |-> <<>>, logger_key |-> <<>>,
              logger |-> NoLogger, ret |-> NoLogger, got_on |-> 0, cached |-> FALSE,
              wrote |-> FALSE]

RegistryInit ==
    /\ session_loggers = EmptyMap
    /\ logger_objects = EmptyMap
    /\ log_files = EmptyMap
    /\ today = 1
    /\ lock_owner = NoThread
    /\ pc = [t \in Threads |-> "idle"]
    /\ frame = [t \in Threads |-> IdleFrame]
    /\ calls_made = 0
    /\ create_runs = EmptyMap
    /\ opened_handlers = {}
    /\ registered = {}

\* get_session_logger is called (lines 31-35): the sentinel and the key
Call(t, project_name, session_id) ==
    /\ pc[t] = "idle"
    /\ calls_made < MaxCalls
    /\ calls_made' = calls_made + 1
    /\ frame' = [frame EXCEPT ![t] =
                   [project_name |-> project_name,
                    session_id   |-> SessionOrDefault(session_id),
                    logger_key   |-> logger_key(project_name, SessionOrDefault(session_id)),
                    logger       |-> NoLogger,
                    ret          |-> NoLogger,
                    got_on       |-> 0,
                    cached       |-> FALSE,
                    wrote        |-> FALSE]]
    /\ pc' = [pc EXCEPT ![t] = "acquire"]
    /\ UNCHANGED <<handler_vars, url_vars, extract_vars,
                   session_loggers, logger_objects, log_files, today, lock_owner,
                   create_runs, opened_handlers, registered>>

\* line 38: the lock is taken
Acquire(t) ==
    /\ pc[t] = "acquire"
    /\ LockAvailable(lock_owner)
    /\ lock_owner' = t
    /\ pc' = [pc EXCEPT ![t] = "check"]
    /\ UNCHANGED <<handler_vars, url_vars, extract_vars, calls_made,
                   session_loggers, logger_objects, log_files, today, frame,
                   create_runs, opened_handlers, registered>>

\* lines 39-40: the cached logger is returned, which leaves the `with` block
ReturnCached(t) ==
    /\ pc[t] = "check"
    /\ KeyRegistered(session_loggers, frame[t].logger_key)
    /\ frame' = [frame EXCEPT ![t].ret = session_loggers[frame[t].logger_key],
                              ![t].got_on = today,
                              ![t].cached = TRUE]
    /\ lock_owner' = NoThread
    /\ pc' = [pc EXCEPT ![t] = "idle"]
    /\ UNCHANGED <<handler_vars, url_vars, extract_vars, calls_made,
                   session_loggers, logger_objects, log_files, today,
                   create_runs, opened_handlers, registered>>

\* line 43: the key is absent and _create_session_logger runs; when it raises
\* the `with` block is left with nothing registered
Create(t) ==
    /\ pc[t] = "check"
    /\ ~KeyRegistered(session_loggers, frame[t].logger_key)
    /\ \E outcome \in CreateOutcomes :
         LET made == create_session_logger(logger_objects, opened_handlers,
                                           frame[t].project_name, frame[t].session_id,
                                           today, outcome)
         IN  /\ logger_objects' = made.objects
             /\ opened_handlers' = made.opened
             /\ frame' = [frame EXCEPT ![t].logger = made.logger]
             /\ lock_owner' = IF made.raised THEN NoThread ELSE lock_owner
             /\ pc' = [pc EXCEPT ![t] = IF made.raised THEN "idle" ELSE "register"]
    /\ create_runs' = Put(create_runs, frame[t].logger_key,
                          Get(create_runs, frame[t].logger_key, 0) + 1)
    /\ UNCHANGED <<handler_vars, url_vars, extract_vars, calls_made,
                   session_loggers, log_files, today, registered>>

\* lines 44-45: the logger is stored under its key and returned
Register(t) ==
    /\ pc[t] = "register"
    /\ session_loggers' = Put(session_loggers, frame[t].logger_key, frame[t].logger)
    /\ registered' = registered \cup {<<frame[t].logger_key, frame[t].logger>>}
    /\ frame' = [frame EXCEPT ![t].ret = frame[t].logger, ![t].got_on = today]
    /\ lock_owner' = NoThread
    /\ pc' = [pc EXCEPT ![t] = "idle"]
    /\ UNCHANGED <<handler_vars, url_vars, extract_vars, calls_made,
                   logger_objects, log_files, today, create_runs, opened_handlers>>

\* the caller logs a record through the logger it was returned: the logger's
\* file handler appends it to its file (a logger left without handler drops it)
Write(t) ==
    /\ pc[t] = "idle"
    /\ frame[t].ret # NoLogger
    /\ ~frame[t].wrote
    /\ frame' = [frame EXCEPT ![t].wrote = TRUE]
    /\ logger_objects[frame[t].ret] # NoHandler
    /\ LET handler == logger_objects[frame[t].ret]
           path    == EmitPath(handler, frame[t].project_name, frame[t].session_id, today)
           record  == [project_name |-> frame[t].project_name,
                       session_id |-> frame[t].session_id,
                       got_on |-> frame[t].got_on,
                       cached |-> frame[t].cached]
       IN  log_files' = Put(log_files, path, Get(log_files, path, {}) \cup {record})
    /\ UNCHANGED <<handler_vars, url_vars, extract_vars,
                   session_loggers, logger_objects, today, lock_owner, pc, calls_made,
                   create_runs, opened_handlers, registered>>

\* midnight passes
Tick ==
    /\ today < MaxDay
    /\ today' = today + 1
    /\ UNCHANGED <<handler_vars, url_vars, extract_vars, calls_made,
                   session_loggers, logger_objects, log_files, lock_owner, pc, frame,
                   create_runs, opened_handlers, registered>>

----------------------------------------------------------------------------
(* logging_config.py: get_session_logger as one step, for a caller that is *)
(* alone (the lock makes the lookup, the creation and the registration one  *)
(* step for everyone else).                                                 *)

\* the registry as a value
Registry == [loggers |-> session_loggers, objects |-> logger_objects,
             opened |-> opened_handlers, registered |-> registered]

get_session_logger(R, project_name, session_id_arg, day, outcome) ==
    LET session_id == SessionOrDefault(session_id_arg)
        key        == logger_key(project_name, session_id)
    IN  IF KeyRegistered(R.loggers, key)
        THEN [raised |-> FALSE, cached |-> TRUE, logger |-> R.loggers[key], R |-> R]
        ELSE LET made == create_session_logger(R.objects, R.opened, project_name,
                                               session_id, day, outcome)
             IN  [raised |-> made.raised, cached |-> FALSE, logger |-> made.logger,
                  R |-> [loggers    |-> IF made.raised THEN R.loggers
                                        ELSE Put(R.loggers, key, made.logger),
                         objects    |-> made.objects,
                         opened     |-> made.opened,
                         registered |-> IF made.raised THEN R.registered
                                        ELSE R.registered \cup {<<key, made.logger>>}]]

\* the log file after records were logged through a logger (none when the call raised)
Logged(files, R, got, project_name, session_id, day) ==
    IF got.raised \/ R.objects[got.logger] = NoHandler THEN files
    ELSE LET path   == EmitPath(R.objects[got.logger], project_name, session_id, day)
             record == [project_name |-> project_name, session_id |-> session_id,
                        got_on |-> day, cached |-> got.cached]
         IN  Put(files, path, Get(files, path, {}) \cup {record})

----------------------------------------------------------------------------
(* server.py: the tool handlers. *)

\* server.py binds no module-level name `logger` (lines 43-44 only print), and
\* get_session_context reads that name at lines 114-115
ModuleLoggerDefined == FALSE

\* the test of lines 218, 281, 333 and 380
HasContextTag(query) ==
    /\ Truthy(query)
    /\ \/ Contains(query, TAG_SESSION_ID)
       \/ Contains(query, TAG_PATH)
       \/ Contains(query, TAG_BOT_ID)

\* get_session_context (lines 100-116): the context with bot_id taken from the
\* path when the message has none; raised says the NameError of line 114
get_session_context(query) ==
    LET c == extract_context_from_message(query)
    IN  [raised  |-> ~ModuleLoggerDefined,
         context |-> [c EXCEPT !.bot_id = IF ~Truthy(c.bot_id) /\ Truthy(c.path)
                                          THEN get_bot_id_from_path(c.path) ELSE @]]

\* the queries the invocations of Spec pass, and for each of them, computed
\* once, what the handlers compute from it
Queries == {<<>>, Q_PLAIN, Q_SESSION, Q_BOT, Q_PATH, Q_ALL}

OfQuery == [q \in Queries |-> [tagged  |-> HasContextTag(q),
                               gsc     |-> get_session_context(q),
                               context |-> extract_context_from_message(q)]]

\* context.get('session_id') or session_id (lines 221, 284, 336, 382)
ResolveSessionIdExplicitFirst(tag_value, session_id) == Or(session_id, tag_value)
ResolveSessionId(tag_value, session_id) == Or(tag_value, session_id)

\* f"{x}"
Str(x) == IF x = None THEN STR_NONE ELSE x

\* lines 238-239: the form URL with the session id and the timestamp
FormUrlWithSession(form_url, session_id, now_ms) ==
    form_url \o (IF Contains(form_url, <<"?">>) THEN <<"&">> ELSE <<"?">>)
             \o PARAM_SESSION_ID \o Str(session_id) \o PARAM_TS \o now_ms

\* line 234
SelectFormUrl(bot_id) == IF bot_id = BOT_FP01 THEN FORM_URL_2 ELSE FORM_URL_1

\* The except blocks of the handlers (lines 252-258 and their copies): the
\* emergency logger is asked for under the current session_id ('session_id' is
\* a parameter, so it is always in locals()), and a failure of that falls back
\* to print.  propagated says whether an exception leaves the block.
EmergencyLogUnguarded(R, files, session_id, day, outcome) ==
    LET got == get_session_logger(R, PROJECT_MCP, session_id, day, outcome)
    IN  [R          |-> got.R,
         files      |-> Logged(files, got.R, got, PROJECT_MCP, SessionOrDefault(session_id), day),
         how        |-> IF got.raised THEN "raised" ELSE "logged",
         propagated |-> got.raised]
EmergencyLog(R, files, session_id, day, outcome) ==
    LET got == get_session_logger(R, PROJECT_MCP, session_id, day, outcome)
    IN  [R          |-> got.R,
         files      |-> Logged(files, got.R, got, PROJECT_MCP, SessionOrDefault(session_id), day),
         how        |-> IF got.raised THEN "printed" ELSE "logged",
         propagated |-> FALSE]

\* what the environment does during one invocation: the outcome of a run of
\* _create_session_logger on the main path and in the except block, and what
\* index.search_records does
Envs == [create : CreateOutcomes, emergency : CreateOutcomes,
         search : {"raises", "no_hits", "hits"}]

\* the form tools search nothing
FormEnvs == {env \in Envs : env.search = "hits"}

\* the replies of rag_retrieval_tool (lines 424, 430, 441)
NOT_FOUND_TEXT == "Sorry, I couldn't find any relevant information."
FOUND_TEXT == "Here's what I found:"
ERROR_TEXT == "Error retrieving context from Pinecone:"

\* a handler's except block and its failure reply (lines 252-264, 304-316,
\* 356-368, 432-441): failed_at names the step that raised, session_id and
\* bot_id are the handler's variables at that moment, bound the session id the
\* session logger was made for (None when the handler had none yet)
FailureOf(tool, R, files, session_id, bot_id, failed_at, steps, bound, queries, day, env) ==
    LET em == EmergencyLog(R, files, session_id, day, env.emergency)
    IN  [R |-> em.R, files |-> em.files,
         result |-> [done |-> TRUE, tool |-> tool, propagated |-> em.propagated,
                     failed_at |-> failed_at, emergency |-> em.how,
                     steps |-> steps \o <<"emergency_logger">>,
                     session_id |-> session_id, bot_id |-> bot_id,
                     logger_session |-> bound, index_queries |-> queries,
                     reply |-> IF em.propagated THEN [kind |-> "exception"]
                               ELSE IF tool = "rag"
                                    THEN [kind |-> "text", text |-> ERROR_TEXT]
                                    ELSE [kind |-> "json", success |-> FALSE,
                                          session_id |-> session_id]]]

\* a handler's return on the main path
ReturnOf(tool, R, files, session_id, bot_id, steps, bound, queries, reply) ==
    [R |-> R, files |-> files,
     result |-> [done |-> TRUE, tool |-> tool, propagated |-> FALSE,
                 failed_at |-> "none", emergency |-> "none", steps |-> steps,
                 session_id |-> session_id, bot_id |-> bot_id,
                 logger_session |-> bound, index_queries |-> queries,
                 reply |-> reply]]

\* the success reply of the three form tools (lines 245-250, 297-302, 349-354)
FormReply(form_url, session_id) ==
    [kind |-> "json", success |-> TRUE, form_url |-> form_url, session_id |-> session_id]

\* book_appointment_tool (lines 215-264) once the query has been looked at: q
\* is the query's entry of OfQuery
BookOn(q, R, files, session_id, bot_id, day, now_ms, env) ==
    LET tagged == q.tagged
        gsc    == q.gsc
    IN  IF tagged /\ gsc.raised
        THEN FailureOf("book", R, files, session_id, bot_id, "context",
                       <<"get_session_context">>, None, <<>>, day, env)
        ELSE
        LET bot  == IF tagged THEN Or(gsc.context.bot_id, bot_id) ELSE bot_id
            sid0 == IF tagged THEN ResolveSessionId(gsc.context.session_id, session_id)
                    ELSE session_id
            sid  == IF ~Truthy(sid0) THEN FALLBACK_SESSION_ID ELSE sid0
            pre  == IF tagged THEN <<"get_session_context">> ELSE <<>>
            got  == get_session_logger(R, PROJECT_MCP, sid, day, env.create)
        IN  IF got.raised
            THEN FailureOf("book", got.R, files, sid, bot, "logger",
                           pre \o <<"get_session_logger">>, None, <<>>, day, env)
            ELSE ReturnOf("book", got.R, Logged(files, got.R, got, PROJECT_MCP, sid, day),
                          sid, bot, pre \o <<"get_session_logger", "form_url">>, sid, <<>>,
                          FormReply(FormUrlWithSession(SelectFormUrl(bot), sid, now_ms), sid))

\* book_appointment_tool (lines 213-264)
book_appointment_tool(R, files, query, session_id, bot_id, day, now_ms, env) ==
    BookOn(OfQuery[query], R, files, session_id, bot_id, day, now_ms, env)

\* cancel_appointment_tool and reschedule_appointment_tool (lines 268-316 and
\* 320-368) differ in the form URL only; path is a parameter neither reads; q
\* is the query's entry of OfQuery
FormTool(tool, form_url, q, R, files, session_id, bot_id, day, now_ms, env) ==
    LET sid1 == IF ~Truthy(session_id) THEN FALLBACK_SESSION_ID ELSE session_id
        got  == get_session_logger(R, PROJECT_MCP, sid1, day, env.create)
    IN  IF got.raised
        THEN FailureOf(tool, got.R, files, sid1, bot_id, "logger",
                       <<"get_session_logger">>, None, <<>>, day, env)
        ELSE
        LET tagged == q.tagged
            c      == q.context
            bot    == IF tagged THEN Or(c.bot_id, bot_id) ELSE bot_id
            sid    == IF tagged THEN ResolveSessionId(c.session_id, sid1) ELSE sid1
            steps  == <<"get_session_logger">>
                      \o (IF tagged THEN <<"extract_context_from_message">> ELSE <<>>)
                      \o <<"form_url">>
        IN  ReturnOf(tool, got.R, Logged(files, got.R, got, PROJECT_MCP, sid1, day),
                     sid, bot, steps, sid1, <<>>,
                     FormReply(FormUrlWithSession(form_url, sid, now_ms), sid))

cancel_appointment_tool(R, files, query, session_id, path, bot_id, day, now_ms, env) ==
    FormTool("cancel", cancelAppointmentFormUrl, OfQuery[query], R, files, session_id, bot_id,
             day, now_ms, env)

reschedule_appointment_tool(R, files, query, session_id, path, bot_id, day, now_ms, env) ==
    FormTool("reschedule", rescheduleAppointmentFormUrl, OfQuery[query], R, files, session_id,
             bot_id, day, now_ms, env)

\* rag_retrieval_tool (lines 377-441) once the query has been looked at: q is
\* the query's entry of OfQuery; env.search is what index.search_records does
RagOn(q, R, files, query, session_id, path, bot_id, day, env) ==
    LET tagged == q.tagged
        gsc    == q.gsc
    IN  IF tagged /\ gsc.raised
        THEN FailureOf("rag", R, files, session_id, bot_id, "context",
                       <<"get_session_context">>, None, <<>>, day, env)
        ELSE
        LET sid0 == IF tagged THEN ResolveSessionId(gsc.context.session_id, session_id)
                    ELSE session_id
            pth  == IF tagged THEN Or(gsc.context.path, path) ELSE path
            bot0 == IF tagged THEN Or(gsc.context.bot_id, bot_id) ELSE bot_id
            text == IF tagged THEN gsc.context.clean_message ELSE query
            sid  == IF ~Truthy(sid0) THEN FALLBACK_SESSION_ID ELSE sid0
            pre  == IF tagged THEN <<"get_session_context">> ELSE <<>>
            got  == get_session_logger(R, PROJECT_MCP, sid, day, env.create)
        IN  IF got.raised
            THEN FailureOf("rag", got.R, files, sid, bot0, "logger",
                           pre \o <<"get_session_logger">>, None, <<>>, day, env)
            ELSE
            LET bot       == IF ~Truthy(bot0) /\ Truthy(pth)
                             THEN get_bot_id_from_path(pth) ELSE bot0
                namespace == IF Truthy(bot) THEN bot ELSE DEFAULT_NAMESPACE
                queries   == <<[namespace |-> namespace, text |-> text, outcome |-> env.search]>>
                logged    == Logged(files, got.R, got, PROJECT_MCP, sid, day)
                steps     == pre \o <<"get_session_logger", "search_records">>
            IN  IF env.search = "raises"
                THEN FailureOf("rag", got.R, logged, sid, bot, "search", steps, sid,
                               queries, day, env)
                ELSE ReturnOf("rag", got.R, logged, sid, bot, steps, sid, queries,
                              [kind |-> "text",
                               text |-> IF env.search = "no_hits" THEN NOT_FOUND_TEXT
                                        ELSE FOUND_TEXT])

\* rag_retrieval_tool (lines 372-441)
rag_retrieval_tool(R, files, query, session_id, path, bot_id, day, env) ==
    RagOn(OfQuery[query], R, files, query, session_id, path, bot_id, day, env)

----------------------------------------------------------------------------
(* The values the variables of the other specifications rest at. *)

NoCall == [tool |-> "none", query |-> <<>>, session_id |-> None, path |-> None, bot_id |-> None]
NoResult == [done |-> FALSE]
NoVerdict == [called |-> FALSE, valid |-> FALSE, reason |-> "not called"]
NoContext == [called |-> FALSE]

HandlerIdle == call = NoCall /\ result = NoResult
UrlIdle == url = <<>> /\ verdict = NoVerdict
ExtractIdle == message = <<>> /\ context = NoContext

----------------------------------------------------------------------------
(* Spec: the tool handlers, one invocation after another. *)

\* the arguments of the invocations
SessionArgs == {None, S1}
BotArgs == {None, BOT_FP01, BOT_QA}
PathArgs == {None, PATH_QA}

\* an invocation has run: its arguments, what it did and the registry after it
Ran(tool, query, session_id, path, bot_id, out) ==
    /\ call' = [tool |-> tool, query |-> query, session_id |-> session_id,
                path |-> path, bot_id |-> bot_id]
    /\ result' = out.result
    /\ session_loggers' = out.R.loggers
    /\ logger_objects' = out.R.objects
    /\ opened_handlers' = out.R.opened
    /\ registered' = out.R.registered
    /\ log_files' = out.files
    /\ UNCHANGED <<today, lock_owner, pc, frame, calls_made, create_runs,
                   url_vars, extract_vars>>

Book ==
    /\ result = NoResult
    /\ \E query \in Queries, session_id \in SessionArgs, bot_id \in BotArgs, env \in FormEnvs :
       Ran("book", query, session_id, None, bot_id,
           book_appointment_tool(Registry, log_files, query, session_id, bot_id,
                                 today, NOW_MS, env))

Cancel ==
    /\ result = NoResult
    /\ \E query \in Queries, session_id \in SessionArgs, path \in PathArgs,
       bot_id \in BotArgs, env \in FormEnvs :
       Ran("cancel", query, session_id, path, bot_id,
           cancel_appointment_tool(Registry, log_files, query, session_id, path, bot_id,
                                   today, NOW_MS, env))

Reschedule ==
    /\ result = NoResult
    /\ \E query \in Queries, session_id \in SessionArgs, path \in PathArgs,
       bot_id \in BotArgs, env \in FormEnvs :
       Ran("reschedule", query, session_id, path, bot_id,
           reschedule_appointment_tool(Registry, log_files, query, session_id, path, bot_id,
                                       today, NOW_MS, env))

Rag ==
    /\ result = NoResult
    /\ \E query \in Queries, session_id \in SessionArgs, path \in PathArgs,
       bot_id \in BotArgs, env \in Envs :
       Ran("rag", query, session_id, path, bot_id,
           rag_retrieval_tool(Registry, log_files, query, session_id, path, bot_id,
                              today, env))

\* the reply has gone to the caller and the invocation's frame is gone
Deliver ==
    /\ result # NoResult
    /\ call' = NoCall
    /\ result' = NoResult
    /\ UNCHANGED <<registry_vars, url_vars, extract_vars>>

Init == RegistryInit /\ HandlerIdle /\ UrlIdle /\ ExtractIdle

Next == Book \/ Cancel \/ Reschedule \/ Rag \/ Deliver

Spec == Init /\ [][Next]_vars

\* what the claims read off an invocation
FormTools == {"book", "cancel", "reschedule"}
TagSessionId == TagValue(call.query, TAG_SESSION_ID)
TagBotId == TagValue(call.query, TAG_BOT_ID)
TagPath == TagValue(call.query, TAG_PATH)

\* a form URL made of base, the separator and the session_id parameter
BuiltOn(form_url, base, session_id) ==
    \/ MatchAt(form_url, 1, base \o <<"?">> \o PARAM_SESSION_ID \o session_id \o PARAM_TS)
    \/ MatchAt(form_url, 1, base \o <<"&">> \o PARAM_SESSION_ID \o session_id \o PARAM_TS)

\* C2 as stated: every reply of the three form tools, on the success path and
\* on the exception path, has a session_id that is neither null nor empty, and
\* without an explicit session_id it is the value of the [SESSION_ID: x] tag,
\* or else the fallback.
C2_ReplySessionIdNeverNull ==
    (result # NoResult /\ result.tool \in FormTools) =>
       /\ result.reply.kind = "json"
       /\ Truthy(result.reply.session_id)
       /\ ~Truthy(call.session_id) =>
             result.reply.session_id = Or(TagSessionId, FALLBACK_SESSION_ID)

\* the session id a handler knows best when a step fails: before the session
\* logger is asked for, book_appointment_tool has only its parameter; at the
\* session logger, every handler has resolved the parameter, the tag (book) and
\* the fallback
BestKnownSessionId ==
    IF result.failed_at = "context" THEN call.session_id
    ELSE IF result.tool = "book"
         THEN Or(Or(TagSessionId, call.session_id), FALLBACK_SESSION_ID)
         ELSE Or(call.session_id, FALLBACK_SESSION_ID)

C4_BookSelectsFormUrl ==
    (result # NoResult /\ result.tool = "book" /\ result.failed_at # "logger") =>
       LET bot == Or(Or(TagBotId, get_bot_id_from_path(TagPath)), call.bot_id)
       IN  /\ result.reply.kind = "json"
           /\ result.reply.success
           /\ BuiltOn(result.reply.form_url,
                      IF bot = BOT_FP01 THEN FORM_URL_2 ELSE FORM_URL_1,
                      result.reply.session_id)

C6_RagQueriesIndexOnce ==
    (result # NoResult /\ result.tool = "rag"
       /\ result.failed_at \notin {"logger", "search"}) =>
       LET bot == Or(Or(TagBotId, call.bot_id),
                     get_bot_id_from_path(Or(TagPath, call.path)))
       IN  /\ Len(result.index_queries) = 1
           /\ result.index_queries[1].text = CleanMessage(call.query)
           /\ result.index_queries[1].namespace = Or(bot, DEFAULT_NAMESPACE)
           /\ result.reply.kind = "text"
           /\ result.reply.text = (IF result.index_queries[1].outcome = "no_hits"
                                    THEN NOT_FOUND_TEXT ELSE FOUND_TEXT)

\* C11 as stated: in every invocation of the four handlers the first step is
\* the call of get_session_logger, so that when a later step (the context
\* extraction, the index search) fails, a session logger has been bound.
C11_SessionLoggerBoundFirst ==
    result # NoResult =>
       /\ Len(result.steps) >= 1
       /\ result.steps[1] = "get_session_logger"
       /\ result.failed_at \in {"context", "search"} => Truthy(result.logger_session)

\* C13 as stated: in every successful invocation of the three form tools, the
\* session logger that writes the invocation's records is bound to the
\* session_id that the reply returns and that form_url carries as its
\* session_id parameter, also when that session_id comes from a tag.
C13_LoggerBoundToReplySession ==
    (result # NoResult /\ result.tool \in FormTools /\ result.failed_at = "none") =>
       /\ result.reply.success
       /\ result.logger_session = result.reply.session_id
       /\ Contains(result.reply.form_url,
                   PARAM_SESSION_ID \o Str(result.reply.session_id) \o PARAM_TS)

----------------------------------------------------------------------------
(* SpecLogger: threads in get_session_logger. *)

InitLogger == RegistryInit /\ HandlerIdle /\ UrlIdle /\ ExtractIdle

NextLogger ==
    \/ \E t \in Threads, args \in CallArgs : Call(t, args[1], args[2])
    \/ \E t \in Threads : Acquire(t)
    \/ \E t \in Threads : ReturnCached(t)
    \/ \E t \in Threads : Create(t)
    \/ \E t \in Threads : Register(t)
    \/ \E t \in Threads : Write(t)
    \/ Tick

SpecLogger == InitLogger /\ [][NextLogger]_vars

\* the file handlers opened for a key
HandlersOf(key) == {h \in opened_handlers : h.key = key}

\* the calls that have returned a logger return what the registry holds
ReturnsAgree ==
    /\ \A t \in Threads : frame[t].ret # NoLogger =>
          /\ frame[t].logger_key \in DOMAIN session_loggers
          /\ session_loggers[frame[t].logger_key] = frame[t].ret
    /\ \A t1, t2 \in Threads :
          (/\ frame[t1].ret # NoLogger
           /\ frame[t2].ret # NoLogger
           /\ frame[t1].logger_key = frame[t2].logger_key) => frame[t1].ret = frame[t2].ret

\* an entry, once registered, is still there and still the same logger
EntriesStay ==
    \A e \in registered : e[1] \in DOMAIN session_loggers /\ session_loggers[e[1]] = e[2]

\* C1 as stated: for any interleaving of get_session_logger calls, the calls with
\* the same key return the same logger, _create_session_logger runs at most once
\* per key, and a registered entry is never replaced or removed.
C1_CreateRunsOncePerKey ==
    /\ ReturnsAgree
    /\ \A key \in DOMAIN create_runs : create_runs[key] <= 1
    /\ \A key \in DOMAIN session_loggers : Cardinality(HandlersOf(key)) <= 1
    /\ EntriesStay

\* C1 as amended: for any interleaving of get_session_logger calls, the calls with
\* the same key that return, return the same logger; _create_session_logger runs to
\* completion (opens a file handler) at most once per key, a run that raises
\* registers nothing and a later call runs it again; a registered entry is never
\* replaced or removed.
C1_CreatedOncePerKey ==
    /\ ReturnsAgree
    /\ \A key \in DOMAIN create_runs :
          /\ Cardinality(HandlersOf(key)) <= 1
          /\ key \notin DOMAIN session_loggers =>
                (\A t \in Threads : frame[t].logger_key = key => frame[t].ret = NoLogger)
    /\ \A e \in registered : Cardinality(HandlersOf(e[1])) = 1
    /\ EntriesStay

\* C1's case: two threads hold the logger of the same key, whose creation was
\* run twice because the first run raised
C1_Witness ==
    \E t1, t2 \in Threads :
       /\ t1 # t2
       /\ frame[t1].ret # NoLogger
       /\ frame[t2].ret = frame[t1].ret
       /\ frame[t1].logger_key = frame[t2].logger_key
       /\ create_runs[frame[t1].logger_key] = 2

C12_DistinctPairsKeptApart ==
    /\ \A a, b \in registered : a[2] = b[2] => a[1] = b[1]
    /\ \A h \in opened_handlers :
          <<h.key, h.name>> \in registered => logger_objects[h.name] = h

----------------------------------------------------------------------------
(* server.py: validate_url.                                                *)
(*                                                                         *)
(* The URLs of SpecUrl hold no whitespace, control character or bracket,   *)
(* so urlparse neither strips anything nor raises, and the except branch   *)
(* of validate_url (lines 199-200) is never taken.                         *)

UPPER == <<"A", "B", "C", "D", "E", "F", "G", "H", "I", "J", "K", "L", "M", "N", "O", "P", "Q", "R", "S", "T", "U", "V", "W", "X", "Y", "Z">>
LOWER == <<"a", "b", "c", "d", "e", "f", "g", "h", "i", "j", "k", "l", "m", "n", "o", "p", "q", "r", "s", "t", "u", "v", "w", "x", "y", "z">>

\* str.lower() of one character, and of a string
LowerChar(c) ==
    LET hits == {k \in 1..Len(UPPER) : UPPER[k] = c}
    IN  IF hits = {} THEN c ELSE LOWER[CHOOSE k \in hits : TRUE]

Lower(s) == [k \in 1..Len(s) |-> LowerChar(s[k])]

\* urllib.parse.scheme_chars
SchemeChars == {UPPER[k] : k \in 1..Len(UPPER)} \cup {LOWER[k] : k \in 1..Len(LOWER)}
               \cup {DIGITS[k] : k \in 1..Len(DIGITS)} \cup {"+", "-", "."}

IsAlpha(c) == \E k \in 1..Len(UPPER) : c = UPPER[k] \/ c = LOWER[k]

\* the index of the first character of s at or after from that is in cs,
\* Len(s)+1 when there is none
FirstOf(s, cs, from) ==
    LET hits == {j \in from..Len(s) : s[j] \in cs}
    IN  IF hits = {} THEN Len(s) + 1 ELSE Least(hits)

\* the index of the last c of s, 0 when there is none
LastIndex(s, c) ==
    LET hits == {j \in 1..Len(s) : s[j] = c}
    IN  IF hits = {} THEN 0 ELSE CHOOSE i \in hits : \A j \in hits : j <= i

\* line 163: urlparse(url), its scheme, netloc and hostname.  The scheme is what
\* stands before the first ":" when that is a letter followed by scheme
\* characters, lower-cased; the netloc is what follows a "//" up to the first
\* "/", "?" or "#"; the hostname is the netloc after its last "@" and before the
\* next ":", lower-cased.
urlparse(u) ==
    LET colon      == IndexFrom(u, ":", 1)
        has_scheme == /\ colon > 1
                      /\ IsAlpha(u[1])
                      /\ \A k \in 1..(colon - 1) : u[k] \in SchemeChars
        scheme     == IF has_scheme THEN Lower(SubSeq(u, 1, colon - 1)) ELSE <<>>
        rest       == IF has_scheme THEN SubSeq(u, colon + 1, Len(u)) ELSE u
        has_netloc == MatchAt(rest, 1, <<"/", "/">>)
        netloc     == IF has_netloc
                      THEN SubSeq(rest, 3, FirstOf(rest, {"/", "?", "#"}, 3) - 1)
                      ELSE <<>>
        hostinfo   == SubSeq(netloc, LastIndex(netloc, "@") + 1, Len(netloc))
        hostname   == Lower(SubSeq(hostinfo, 1, FirstOf(hostinfo, {":"}, 1) - 1))
    IN  [scheme |-> scheme, netloc |-> netloc, hostname |-> hostname]

HTTP == <<"h", "t", "t", "p">>
HTTPS == <<"h", "t", "t", "p", "s">>
LOCALHOST == <<"l", "o", "c", "a", "l", "h", "o", "s", "t">>
PORT_3001 == <<"3", "0", "0", "1">>
PORT_5174 == <<"5", "1", "7", "4">>

\* lines 178-188: dangerous_patterns.  Each regular expression of the list has a
\* finite language, given here as the set of the strings it matches.
dangerous_patterns ==
    << {LOCALHOST},
       {<<"1", "2", "7", ".", "0", ".", "0", ".", "1">>},
       {<<"0", ".", "0", ".", "0", ".", "0">>},
       {<<"1", "9", "2", ".", "1", "6", "8", ".">>},
       {<<"1", "0", ".">>},
       {<<"1", "7", "2", ".">> \o <<DIGITS[(k \div 10) + 1], DIGITS[(k % 10) + 1], ".">> : k \in 16..31},
       {<<"f", "i", "l", "e", ":", "/", "/">>},
       {<<"j", "a", "v", "a", "s", "c", "r", "i", "p", "t", ":">>},
       {<<"d", "a", "t", "a", ":">>} >>

\* line 191: re.search(pattern, url, re.IGNORECASE).  The patterns hold no
\* upper-case letter, so ignoring case is searching the lower-cased url.
PatternSearch(pattern, u) == \E lit \in pattern : Contains(Lower(u), lit)

\* line 193: 'localhost' in url and ('3001' in url or '5174' in url), a test on
\* the text of the whole url, case-sensitive
DevelopmentException(u) ==
    Contains(u, LOCALHOST) /\ (Contains(u, PORT_3001) \/ Contains(u, PORT_5174))

REASON_NO_URL == "No URL provided"
REASON_PROTOCOL == "Only HTTP and HTTPS protocols are allowed"
REASON_NO_DOMAIN == "Invalid URL format - no domain found"
REASON_DOMAIN_FORMAT == "Invalid domain format"
REASON_SECURITY == "URL not allowed for security reasons"
REASON_VALID == "URL is valid"

Verdict(valid, reason) == [called |-> TRUE, valid |-> valid, reason |-> reason]

\* lines 154-200.  The loop of lines 190-195 returns at the first pattern that
\* is found unless the development exception holds; that test does not depend
\* on the pattern, so the loop rejects exactly when some pattern is found and
\* the exception does not hold.
validate_url(u) ==
    LET parsed == urlparse(u)
    IN  IF ~Truthy(u) THEN Verdict(FALSE, REASON_NO_URL)
        ELSE IF parsed.scheme \notin {HTTP, HTTPS} THEN Verdict(FALSE, REASON_PROTOCOL)
        ELSE IF parsed.netloc = <<>> THEN Verdict(FALSE, REASON_NO_DOMAIN)
        ELSE IF Len(parsed.netloc) < 3 \/ ~Contains(parsed.netloc, <<".">>)
             THEN Verdict(FALSE, REASON_DOMAIN_FORMAT)
        ELSE IF \E k \in 1..Len(dangerous_patterns) :
                    PatternSearch(dangerous_patterns[k], u) /\ ~DevelopmentException(u)
             THEN Verdict(FALSE, REASON_SECURITY)
        ELSE Verdict(TRUE, REASON_VALID)

----------------------------------------------------------------------------
(* SpecUrl: validate_url applied to one URL of a family.                   *)

SEP == <<":", "/", "/">>
Schemes == {HTTP, HTTPS, <<"f", "t", "p">>, <<"H", "T", "T", "P">>}
UserInfos == {<<>>, <<"a", ".", "b", "@">>}
Hosts == {LOCALHOST, <<"1", "2", "7", ".", "0", ".", "0", ".", "1">>, <<"0", ".", "0", ".", "0", ".", "0">>, <<"1", "9", "2", ".", "1", "6", "8", ".", "1", ".", "5">>, <<"1", "0", ".", "0", ".", "0", ".", "1">>,
          <<"1", "7", "2", ".", "1", "6", ".", "0", ".", "1">>, <<"1", "7", "2", ".", "3", "2", ".", "0", ".", "1">>, <<"e", "x", "a", "m", "p", "l", "e", ".", "c", "o", "m">>,
          <<"L", "o", "c", "a", "l", "H", "o", "s", "t">>, <<"l", "o", "c", "a", "l", "h", "o", "s", "t", ".", "t", "e", "s", "t">>}
Ports == {<<>>, <<":">> \o PORT_3001, <<":">> \o PORT_5174, <<":", "8", "0">>}
Paths == {<<>>, <<"/", "a">>, <<"/", "?", "r", "=", "l", "o", "c", "a", "l", "h", "o", "s", "t", ":", "3", "0", "0", "1">>, <<"/", "l", "o", "c", "a", "l", "h", "o", "s", "t", "/", "5", "1", "7", "4">>}

Urls == {<<>>, None}
        \cup {s \o SEP \o ui \o h \o p \o pa :
                  s \in Schemes, ui \in UserInfos, h \in Hosts, p \in Ports, pa \in Paths}

InitUrl ==
    /\ RegistryInit /\ HandlerIdle /\ ExtractIdle
    /\ url \in Urls
    /\ verdict = NoVerdict

Validate ==
    /\ verdict = NoVerdict
    /\ verdict' = validate_url(url)
    /\ UNCHANGED <<url, registry_vars, handler_vars, extract_vars>>

NextUrl == Validate

SpecUrl == InitUrl /\ [][NextUrl]_vars

\* the URL's host is localhost
HostIsLocalhost(u) == urlparse(u).hostname = LOCALHOST

\* the text of the URL holds port 3001 or 5174
HasDevPort(u) == Contains(u, PORT_3001) \/ Contains(u, PORT_5174)

\* the URL's host is on the private/loopback block-list
HostBlockListed(u) ==
    LET host == urlparse(u).hostname
    IN  \/ host \in {LOCALHOST, <<"1", "2", "7", ".", "0", ".", "0", ".", "1">>, <<"0", ".", "0", ".", "0", ".", "0">>}
        \/ \E k \in {4, 5, 6} : \E lit \in dangerous_patterns[k] : MatchAt(host, 1, lit)

\* C8: every http/https URL whose host is localhost and whose text holds port
\* 3001 or 5174 is judged valid by validate_url.
C8_DevExceptionAccepted ==
    (/\ verdict.called
     /\ urlparse(url).scheme \in {HTTP, HTTPS}
     /\ HostIsLocalhost(url)
     /\ HasDevPort(url))
    => verdict.valid

\* C9: every URL whose host is on the block-list is judged invalid by
\* validate_url, whatever its path or query string holds, unless it is a
\* localhost URL whose text holds port 3001 or 5174.
C9_BlockListedHostRejected ==
    (/\ verdict.called
     /\ HostBlockListed(url)
     /\ ~(HostIsLocalhost(url) /\ HasDevPort(url)))
    => ~verdict.valid

----------------------------------------------------------------------------
(* SpecExtract: extract_context_from_message applied to one message of a   *)
(* family.  A message is a concatenation of at most MaxFrags fragments:    *)
(* whole tags, tag openers without their colon, tag ends and plain text.   *)

MaxFrags == 3

Fragments ==
    {<<"[", "S", "E", "S", "S", "I", "O", "N", "_", "I", "D">>, <<"[", "P", "A", "T", "H">>, <<"[", "B", "O", "T", "_", "I", "D">>,
     <<"[", "S", "E", "S", "S", "I", "O", "N", "_", "I", "D", ":", " ", "s", "2", "]", " ">>, <<"[", "P", "A", "T", "H", ":", "x", "]">>, <<"[", "B", "O", "T", "_", "I", "D", ":", " ", "f", "p", "0", "1", "]">>,
     <<":", "a", "]">>, <<" ", "h", "i", " ">>, <<":", " ", "]">>}

RECURSIVE Concat(_)
Concat(frags) == IF frags = <<>> THEN <<>> ELSE Head(frags) \o Concat(Tail(frags))

Messages == {Concat(frags) : frags \in UNION {[1..n -> Fragments] : n \in 0..MaxFrags}}

InitExtract ==
    /\ RegistryInit /\ HandlerIdle /\ UrlIdle
    /\ message \in Messages
    /\ context = NoContext

Extract ==
    /\ context = NoContext
    /\ context' = [called |-> TRUE, value |-> extract_context_from_message(message)]
    /\ UNCHANGED <<message, registry_vars, handler_vars, url_vars>>

NextExtract == Extract

SpecExtract == InitExtract /\ [][NextExtract]_vars

TagPatterns == {TAG_SESSION_ID, TAG_PATH, TAG_BOT_ID}

\* C10: the clean_message of extract_context_from_message holds no occurrence
\* of any of the three tag patterns, and for a message without tags it is the
\* trimmed message.
C10_CleanMessageHasNoTag ==
    context.called =>
        /\ \A tag \in TagPatterns : ~HasTagPattern(context.value.clean_message, tag)
        /\ (\A tag \in TagPatterns : ~HasTagPattern(message, tag))
               => context.value.clean_message = Strip(message)

\* the half of C10 that is about messages without tags, on its own
C10_UntaggedMessageTrimmed ==
    (context.called /\ \A tag \in TagPatterns : ~HasTagPattern(message, tag))
        => context.value.clean_message = Strip(message)

====
